---------------------------- MODULE Spec2Model ----------------------------
(***************************************************************************)
(* A model of the Prompted-Game-Asset-Creator single-page application:     *)
(*   - the module components of src/App.tsx (Inspector, InterfaceStudio,   *)
(*     LogoStudio, EnvironmentStudio, TextureForge, VFXStudio, AssetEditor,*)
(*     AssetLibrary) and the session registry `library` of App;            *)
(*   - the prompt pipeline of src/services/geminiService.ts                *)
(*     (enhancePrompt, generateProfessionalAsset, generateVisualElement);  *)
(*   - the mask rasterizer getMaskFile of the canvas editor.               *)
(*   - the content requests of src/services/geminiService.ts              *)
(*     (editGameAsset, generateVfxAsset, paintUVTexture, analyzeForEngine, *)
(*     extractVisualStyle, reverseEngineerPrompt, extractTextureFromImage);*)
(*   - the edit submission and the multi-concept generations of the canvas *)
(*     editor.                                                             *)
(* Eight specifications share the variables: Spec (the application and its *)
(* registry), SpecLive (the application when every call settles),          *)
(* SpecInterface (InterfaceStudio on its own), SpecRegistry (the registry  *)
(* operations called with arbitrary arguments), SpecPrompt (one run of the *)
(* prompt pipeline), SpecMask (the paint overlay, its stencil and the edit *)
(* submission), SpecContent (one content request and the extraction of its *)
(* result) and SpecBatch (the multi-concept generations).                  *)
(***************************************************************************)
EXTENDS Integers, Sequences, FiniteSets, Bags, TLC

VARIABLES
    activeModule,   \* App.activeModule: the one module component mounted
    local,          \* the useState fields of the mounted component
    library,        \* App.library: the session registry, a sequence of assets
    clock,          \* the last reading of Date.now() a handler took (0: none yet)
    ops,            \* bag of handler runs suspended at an await
    tally,          \* history: how many runs resolved / rejected / called onSave
    lastCall,       \* history: the registry call or event of the last step
    gpa,            \* one run of generateProfessionalAsset (SpecPrompt)
    canvas,         \* the paint overlay of the canvas editor and its brush (SpecMask)
    mask,           \* the last call of getMaskFile and its result (SpecMask)
    svc,            \* one call of a content-request service function (SpecContent)
    edit,           \* one run of handleEditImage of the canvas editor (SpecMask)
    batch           \* the multi-concept generations of the canvas editor (SpecBatch)

vars == <<activeModule, local, library, clock, ops, tally, lastCall, gpa, canvas, mask,
          svc, edit, batch>>

-----------------------------------------------------------------------------
(* Bounds of the model. *)

\* handler runs started in one behaviour (hence also the registry's length)
MaxOps == 2
\* the last reading of the millisecond clock
MaxClock == 2
\* addToLibrary calls in one behaviour of SpecRegistry
MaxAdds == 3
\* tokens in a text typed by the user or returned by the external model
MaxText == 2
\* parts in the first candidate of a content response
MaxParts == 2
\* pixels of the paint overlay (width * height)
MaxPixels == 3
\* strokes drawn on the overlay since it was last cleared
MaxStrokes == 3
\* handler runs started in one behaviour of SpecInterface
MaxUiRuns == 3

-----------------------------------------------------------------------------
(* The session registry: App, src/App.tsx 696-701. *)

Modules == {"inspector", "interface", "logo", "environment", "texture",
            "vfx", "editor", "library"}

AssetTypes == {"logo", "banner", "texture", "edit", "ui", "remaster", "noise", "cookie"}

\* swap-remove instead of filter: the first entry with the id is overwritten
\* by the last entry and the list is shortened by one
deleteFromLibrary_SwapRemove(prev, id) ==
    LET hits == {i \in 1..Len(prev) : prev[i].id = id}
    IN  IF hits = {} THEN prev
        ELSE LET at == CHOOSE i \in hits : \A j \in hits : i <= j
             IN  [k \in 1..(Len(prev) - 1) |-> IF k = at THEN prev[Len(prev)] ELSE prev[k]]

\* prev.filter(a => a.id !== id) with indexOf/splice instead: splice(-1, 1)
\* drops the last entry when the id is absent.
deleteFromLibrary_Splice(prev, id) ==
    LET hits == {i \in 1..Len(prev) : prev[i].id = id}
        at   == IF hits = {} THEN Len(prev)
                ELSE CHOOSE i \in hits : \A j \in hits : i <= j
    IN  [k \in 1..(IF Len(prev) = 0 THEN 0 ELSE Len(prev) - 1) |->
            IF k < at THEN prev[k] ELSE prev[k + 1]]

\* setLibrary(prev => [asset, ...prev]) written as [...prev, asset]
addToLibrary_Append(prev, asset) == Append(prev, asset)

\* setLibrary([asset, ...library]) with the library of the render in which
\* the handler was created (the empty one) instead of the functional update
addToLibrary_StaleClosure(prev, asset) == <<asset>>

\* addToLibrary: setLibrary(prev => [asset, ...prev])
addToLibrary(prev, asset) == <<asset>> \o prev

\* deleteFromLibrary: setLibrary(prev => prev.filter(a => a.id !== id))
deleteFromLibrary(prev, id) == SelectSeq(prev, LAMBDA a : a.id # id)

HasId(lib, id) == \E i \in 1..Len(lib) : lib[i].id = id


-----------------------------------------------------------------------------
(* The module components: their state and their handlers.                  *)
(* Only one module component is mounted at a time (src/App.tsx 735-742);   *)
(* `local` holds the useState fields of that component:                    *)
(*   loading  the component's loading flag                                 *)
(*   prompt   the required text is non-empty (prompt, or styleDesc in      *)
(*            InterfaceStudio)                                             *)
(*   image    a file is loaded (Inspector.image, AssetEditor.image)        *)
(*   report   Inspector.report is set                                      *)
(*   remastered  Inspector.remasteredUrl is set                            *)
(*   mode     TextureForge.mode / VFXStudio.mode                           *)
(*   items    InterfaceStudio.generatedItems                               *)
(* A handler is given as the sequence of effects it performs on an event:  *)
(* "click" (the synchronous part up to the first await), "resolved" (the   *)
(* rest of the try block once the service call returned a value) and       *)
(* "rejected" (the catch block); the finally block ends both.              *)

InitLocal(m) ==
    [loading |-> FALSE, prompt |-> FALSE, image |-> FALSE, report |-> FALSE,
     remastered |-> FALSE, items |-> <<>>,
     mode |-> IF m = "texture" THEN "create" ELSE IF m = "vfx" THEN "noise" ELSE "none"]

Handlers == {"Inspector.handleAnalyze", "Inspector.handleRemaster",
             "InterfaceStudio.handleAnalyzeStyle", "InterfaceStudio.handleGenerate",
             "LogoStudio.handleGenerate", "EnvironmentStudio.handleGenerate",
             "TextureForge.handleGenerate", "TextureForge.handleProcessImage",
             "VFXStudio.handleGenerate",
             "AssetEditor.handleEdit", "AssetEditor.handleGetPrompt"}

Inspector_handleAnalyze(ev, st) ==
    CASE ev = "click"    -> IF ~st.image THEN <<>> ELSE <<"setLoading(true)", "await">>
      [] ev = "resolved" -> <<"setReport(data)", "setLoading(false)">>
      [] ev = "rejected" -> <<"alert", "setLoading(false)">>

\* handleRemaster with onSave moved to the finally block
Inspector_handleRemaster_SaveInFinally(ev, st) ==
    CASE ev = "click"    -> IF ~st.report THEN <<>> ELSE <<"setLoading(true)", "await">>
      [] ev = "resolved" -> <<"setRemasteredUrl(url)", "onSave", "setLoading(false)">>
      [] ev = "rejected" -> <<"alert", "onSave", "setLoading(false)">>

Inspector_handleRemaster(ev, st) ==
    CASE ev = "click"    -> IF ~st.report THEN <<>> ELSE <<"setLoading(true)", "await">>
      [] ev = "resolved" -> <<"setRemasteredUrl(url)", "onSave", "setLoading(false)">>
      [] ev = "rejected" -> <<"alert", "setLoading(false)">>

InterfaceStudio_handleAnalyzeStyle(ev, st) ==
    CASE ev = "click"    -> <<"setLoading(true)", "await">>
      [] ev = "resolved" -> <<"setStyleDesc(desc)", "setStyleRef(file)", "setLoading(false)">>
      [] ev = "rejected" -> <<"alert", "setLoading(false)">>

InterfaceStudio_handleGenerate(ev, st) ==
    CASE ev = "click"    -> IF ~st.prompt THEN <<>> ELSE <<"setLoading(true)", "await">>
      [] ev = "resolved" -> <<"setGeneratedItems", "onSave", "setLoading(false)">>
      [] ev = "rejected" -> <<"alert", "setLoading(false)">>

\* handleGenerate without its first line, if (!prompt) return
LogoStudio_handleGenerate_NoGuard(ev, st) ==
    CASE ev = "click"    -> <<"setLoading(true)", "await">>
      [] ev = "resolved" -> <<"setResult(url)", "onSave", "setLoading(false)">>
      [] ev = "rejected" -> <<"alert", "setLoading(false)">>

LogoStudio_handleGenerate(ev, st) ==
    CASE ev = "click"    -> IF ~st.prompt THEN <<>> ELSE <<"setLoading(true)", "await">>
      [] ev = "resolved" -> <<"setResult(url)", "onSave", "setLoading(false)">>
      [] ev = "rejected" -> <<"alert", "setLoading(false)">>

\* handleGenerate with setLoading(false) at the end of the try block instead
\* of the finally block
EnvironmentStudio_handleGenerate_NoFinally(ev, st) ==
    CASE ev = "click"    -> IF ~st.prompt THEN <<>> ELSE <<"setLoading(true)", "await">>
      [] ev = "resolved" -> <<"setResult(url)", "onSave", "setLoading(false)">>
      [] ev = "rejected" -> <<"alert">>

EnvironmentStudio_handleGenerate(ev, st) ==
    CASE ev = "click"    -> IF ~st.prompt THEN <<>> ELSE <<"setLoading(true)", "await">>
      [] ev = "resolved" -> <<"setResult(url)", "onSave", "setLoading(false)">>
      [] ev = "rejected" -> <<"alert", "setLoading(false)">>

\* handleGenerate saving optimistically, before the awaited call
TextureForge_handleGenerate_SaveBeforeAwait(ev, st) ==
    CASE ev = "click"    -> IF ~st.prompt THEN <<>> ELSE <<"setLoading(true)", "onSave", "await">>
      [] ev = "resolved" -> <<"setResult(url)", "setLoading(false)">>
      [] ev = "rejected" -> <<"alert", "setLoading(false)">>

TextureForge_handleGenerate(ev, st) ==
    CASE ev = "click"    -> IF ~st.prompt THEN <<>> ELSE <<"setLoading(true)", "await">>
      [] ev = "resolved" -> <<"setResult(url)", "onSave", "setLoading(false)">>
      [] ev = "rejected" -> <<"alert", "setLoading(false)">>

\* the handler runs only when a file was chosen: e.target.files?.[0]
TextureForge_handleProcessImage(ev, st) ==
    CASE ev = "click"    -> <<"setLoading(true)", "setResult(null)", "await">>
      [] ev = "resolved" -> <<"setResult(url)", "setAnalysis", "onSave", "setLoading(false)">>
      [] ev = "rejected" -> <<"alert", "setLoading(false)">>

VFXStudio_handleGenerate(ev, st) ==
    CASE ev = "click"    -> <<"setLoading(true)", "await">>
      [] ev = "resolved" -> <<"setResult(url)", "onSave", "setLoading(false)">>
      [] ev = "rejected" -> <<"alert", "setLoading(false)">>

AssetEditor_handleEdit(ev, st) ==
    CASE ev = "click"    -> IF ~st.image \/ ~st.prompt THEN <<>> ELSE <<"setLoading(true)", "await">>
      [] ev = "resolved" -> <<"setPreviewUrl(newUrl)", "onSave", "setLoading(false)">>
      [] ev = "rejected" -> <<"alert", "setLoading(false)">>

AssetEditor_handleGetPrompt(ev, st) ==
    CASE ev = "click"    -> IF ~st.image THEN <<>> ELSE <<"setLoading(true)", "await">>
      [] ev = "resolved" -> <<"setReversePrompt(p)", "setLoading(false)">>
      [] ev = "rejected" -> <<"alert", "setLoading(false)">>

HandlerEffects(h, ev, st) ==
    CASE h = "Inspector.handleAnalyze"            -> Inspector_handleAnalyze(ev, st)
      [] h = "Inspector.handleRemaster"           -> Inspector_handleRemaster(ev, st)
      [] h = "InterfaceStudio.handleAnalyzeStyle" -> InterfaceStudio_handleAnalyzeStyle(ev, st)
      [] h = "InterfaceStudio.handleGenerate"     -> InterfaceStudio_handleGenerate(ev, st)
      [] h = "LogoStudio.handleGenerate"          -> LogoStudio_handleGenerate(ev, st)
      [] h = "EnvironmentStudio.handleGenerate"   -> EnvironmentStudio_handleGenerate(ev, st)
      [] h = "TextureForge.handleGenerate"        -> TextureForge_handleGenerate(ev, st)
      [] h = "TextureForge.handleProcessImage"    -> TextureForge_handleProcessImage(ev, st)
      [] h = "VFXStudio.handleGenerate"           -> VFXStudio_handleGenerate(ev, st)
      [] h = "AssetEditor.handleEdit"             -> AssetEditor_handleEdit(ev, st)
      [] h = "AssetEditor.handleGetPrompt"        -> AssetEditor_handleGetPrompt(ev, st)

\* the module a handler belongs to (src/App.tsx 735-741)
ModuleOf(h) ==
    CASE h \in {"Inspector.handleAnalyze", "Inspector.handleRemaster"} -> "inspector"
      [] h \in {"InterfaceStudio.handleAnalyzeStyle", "InterfaceStudio.handleGenerate"} -> "interface"
      [] h = "LogoStudio.handleGenerate"        -> "logo"
      [] h = "EnvironmentStudio.handleGenerate" -> "environment"
      [] h \in {"TextureForge.handleGenerate", "TextureForge.handleProcessImage"} -> "texture"
      [] h = "VFXStudio.handleGenerate"         -> "vfx"
      [] h \in {"AssetEditor.handleEdit", "AssetEditor.handleGetPrompt"} -> "editor"

\* the control that triggers the handler can be used: the `disabled`
\* attribute of its button, and the branch of the JSX that renders it
ControlEnabled(h, st) ==
    CASE h = "Inspector.handleAnalyze"            -> st.image /\ ~st.loading
      [] h = "Inspector.handleRemaster"           -> st.report /\ ~st.remastered /\ ~st.loading
      [] h = "InterfaceStudio.handleAnalyzeStyle" -> TRUE
      [] h = "InterfaceStudio.handleGenerate"     -> ~st.loading /\ st.prompt
      [] h = "LogoStudio.handleGenerate"          -> ~st.loading
      [] h = "EnvironmentStudio.handleGenerate"   -> ~st.loading
      [] h = "TextureForge.handleGenerate"        -> st.mode = "create" /\ ~st.loading
      [] h = "TextureForge.handleProcessImage"    -> st.mode # "create"
      [] h = "VFXStudio.handleGenerate"           -> ~st.loading
      [] h = "AssetEditor.handleEdit"             -> ~st.loading /\ st.image
      [] h = "AssetEditor.handleGetPrompt"        -> ~st.loading /\ st.image

\* the input a handler requires is missing: the state its first line tests
\* (!image, !report, !styleDesc, !prompt, !image || !prompt); the handlers of
\* the file inputs run only with a file, and VFXStudio's tests nothing
MissingInput(h, st) ==
    CASE h \in {"Inspector.handleAnalyze", "AssetEditor.handleGetPrompt"} -> ~st.image
      [] h = "Inspector.handleRemaster"       -> ~st.report
      [] h = "AssetEditor.handleEdit"         -> ~st.image \/ ~st.prompt
      [] h \in {"InterfaceStudio.handleGenerate", "LogoStudio.handleGenerate",
                "EnvironmentStudio.handleGenerate", "TextureForge.handleGenerate"} -> ~st.prompt
      [] OTHER                                -> FALSE

\* the `type` of the asset a handler saves ("none": the handler saves nothing)
SavedType(h, st) ==
    CASE h = "Inspector.handleRemaster"        -> "remaster"
      [] h = "InterfaceStudio.handleGenerate"  -> "ui"
      [] h = "LogoStudio.handleGenerate"       -> "logo"
      [] h = "EnvironmentStudio.handleGenerate" -> "banner"
      [] h = "TextureForge.handleGenerate"     -> "texture"
      [] h = "TextureForge.handleProcessImage" -> "texture"
      [] h = "VFXStudio.handleGenerate"        -> st.mode
      [] h = "AssetEditor.handleEdit"          -> "edit"
      [] OTHER                                 -> "none"

\* the requests to the external service a handler's service function awaits,
\* one after the other (the FileReader await of fileToGenerativePart is local)
ServiceCalls(h) ==
    CASE h = "Inspector.handleAnalyze"            -> <<"generateContent">>
      [] h = "InterfaceStudio.handleAnalyzeStyle" -> <<"generateContent">>
      [] h = "AssetEditor.handleGetPrompt"        -> <<"generateContent">>
      [] h = "AssetEditor.handleEdit"             -> <<"generateContent">>
      [] h = "TextureForge.handleProcessImage"    -> <<"generateContent", "enhancePrompt", "generateImages">>
      [] OTHER                                    -> <<"enhancePrompt", "generateImages">>

\* the service function throws when the last response carries no usable
\* payload (no image bytes, no inline data, text that JSON.parse rejects);
\* extractVisualStyle and reverseEngineerPrompt substitute a default text
ThrowsOnEmpty(h) ==
    h \notin {"InterfaceStudio.handleAnalyzeStyle", "AssetEditor.handleGetPrompt"}


-----------------------------------------------------------------------------
(* Running a handler's effects, in the order the handler performs them.    *)
(* c.st is the state of the component the handler belongs to; a setter of  *)
(* a component that was unmounted meanwhile (c.mounted = FALSE) changes    *)
(* nothing, while onSave is App's addToLibrary and always acts.            *)

SetLocal(c, field, value) ==
    IF c.mounted THEN [c EXCEPT !.st = [c.st EXCEPT ![field] = value]] ELSE c

Effect(c, e) ==
    CASE e = "setLoading(true)"      -> SetLocal(c, "loading", TRUE)
      [] e = "setLoading(false)"     -> SetLocal(c, "loading", FALSE)
      [] e = "setReport(data)"       -> SetLocal(c, "report", c.data)
      [] e = "setRemasteredUrl(url)" -> SetLocal(c, "remastered", TRUE)
      [] e = "setStyleDesc(desc)"    -> SetLocal(c, "prompt", TRUE)
      [] e = "setGeneratedItems"     ->
            SetLocal(c, "items", <<[c.asset EXCEPT !.n = c.saves + 1]>> \o c.seen)
      [] e = "await"                 -> [c EXCEPT !.awaiting = TRUE]
      [] e = "onSave"                ->
            [c EXCEPT !.library = addToLibrary(c.library, [c.asset EXCEPT !.n = c.saves + 1]),
                      !.saves = c.saves + 1]
      [] OTHER                       -> c

RECURSIVE Exec(_, _)
Exec(c, effects) ==
    IF effects = <<>> THEN c
    ELSE Exec(Effect(c, Head(effects)), Tail(effects))

\* the asset literal of the handlers: { id: Date.now().toString(), type, url,
\* prompt, createdAt: new Date() }; n is a history field, the rank of the
\* addToLibrary call that stored the asset
NewAsset(now, type, url) ==
    [id |-> ToString(now), type |-> type, url |-> url, createdAt |-> now, n |-> 0]

Context(st, mounted, type, data, now) ==
    [st |-> st, mounted |-> mounted, library |-> library, saves |-> tally.saves,
     awaiting |-> FALSE, data |-> data, seen |-> <<>>,
     asset |-> NewAsset(now, type, <<"data:", "image/jpeg", ";base64,", "X">>)]

Started == BagCardinality(ops) + tally.resolved + tally.rejected + tally.done

-----------------------------------------------------------------------------
(* The prompt pipeline of src/services/geminiService.ts.  A text is a      *)
(* sequence of tokens; the string literals of the code are cut into tokens *)
(* so that the clauses the claims name are tokens of their own, and a      *)
(* template literal is the concatenation of its pieces.  An optional text  *)
(* (response.text) is a sequence of at most one text: <<>> is undefined.   *)

Words == {"mossy stone wall", "Seamless, tileable,", "NO TEXT. NO NUMBERS."}

RECURSIVE TextsOfLen(_)
TextsOfLen(n) ==
    IF n = 0 THEN {<<>>}
    ELSE {Append(t, w) : t \in TextsOfLen(n - 1), w \in Words}

\* the texts a user can type and the external model can answer
Texts == UNION {TextsOfLen(n) : n \in 0..MaxText}

\* response.text of a generateContent response: undefined, or a text
ResponseTexts == {<<>>} \cup {<<t>> : t \in Texts}

GpaAssetTypes == {"logo", "banner", "texture", "ui", "cookie", "noise", "ui-visual"}

Styles == {"PBR Material", "Technical Art"}

SeamlessClause == <<"Seamless, tileable,">>

NoTextClause == <<"NO TEXT. NO NUMBERS.">>

Contains(text, clause) ==
    \E i \in 1..(Len(text) - Len(clause) + 1) :
        SubSeq(text, i, i + Len(clause) - 1) = clause

\* generateProfessionalAsset: let specificConstraints = ...; if (assetType === ...) +=
SpecificConstraints(assetType) ==
    <<"Ensure the asset is high-resolution.">>
    \o (IF assetType = "logo" THEN <<"Vector style, clean lines, iconic.">> ELSE <<>>)
    \o (IF assetType = "texture"
        THEN <<"Seamless, tileable,", "PBR material, flat lighting.">> ELSE <<>>)
    \o (IF assetType = "banner"
        THEN <<"Cinematic, atmospheric, highly detailed environment.">> ELSE <<>>)
    \o (IF assetType = "ui"
        THEN <<"Isolatable elements on plain background, user interface design.">> ELSE <<>>)
    \o (IF assetType = "noise"
        THEN <<"Grayscale heightmap, high contrast,", "flat lighting, no shading,",
               "Suitable for VFX shaders.">> ELSE <<>>)
    \o (IF assetType = "cookie"
        THEN <<"High contrast Black and White only (Gobo).", "Pure black background",
               "Sharp defined edges for shadow projection.">> ELSE <<>>)
    \o (IF assetType = "ui-visual"
        THEN <<"STRICTLY", "NO TEXT. NO NUMBERS.", "NO ALPHABET.",
               "Purely graphical game asset.", "Iconography or abstract UI shapes only.">>
        ELSE <<>>)

\* the context argument: `Generating a professional ${assetType} for a video
\* game. Style goal: ${styleProfile}.`
EnhanceContext(assetType, styleProfile) ==
    <<"Generating a professional", assetType, "for a video game. Style goal:", styleProfile>>

\* enhancePrompt: the systemPrompt sent as `contents` to the art director
SystemPrompt(userPrompt, context, specificDetails) ==
    <<"You are an expert Lead Game Artist and Technical Artist.", "Context:">>
    \o context \o <<"User Concept:">> \o userPrompt
    \o <<"Specific Constraints:">> \o specificDetails
    \o <<"Rules:", "Output ONLY the prompt.">>

\* response.text ?? userPrompt: an empty text is kept
EnhancedPrompt_Nullish(responseText, userPrompt) ==
    IF responseText = <<>> THEN userPrompt ELSE responseText[1]

\* enhancePrompt: return response.text || userPrompt
EnhancedPrompt(responseText, userPrompt) ==
    IF responseText = <<>> \/ responseText[1] = <<>> THEN userPrompt ELSE responseText[1]

\* generateVisualElement: the prompt template handed on as userPrompt
VisualElementPrompt(styleGuide, itemDescription) ==
    <<"Create a Game UI Visual Asset:">> \o itemDescription
    \o <<"Target Visual Style:">> \o styleGuide
    \o <<"CRITICAL CONSTRAINTS:", "ABSOLUTELY", "NO TEXT. NO NUMBERS.",
         "NO LETTERS. NO SYMBOLS.", "The image must be PURELY graphical/pictorial.",
         "High resolution, isolated on a plain solid background.">>

\* imageBytes of response.generatedImages?.[0]?.image: at most one string;
\* <<>> when the response holds no image or the image no bytes
ImageBytes == {<<>>, <<"">>, <<"X">>}

\* if (image) in place of if (image && image.imageBytes)
ProfessionalAssetResult_AnyImage(bytes) ==
    IF bytes # <<>>
    THEN <<"data:image/jpeg;base64,", bytes[1]>>
    ELSE <<>>

\* generateProfessionalAsset: if (image && image.imageBytes) return
\* `data:image/jpeg;base64,${image.imageBytes}`; <<>> stands for the throw
ProfessionalAssetResult(bytes) ==
    IF bytes # <<>> /\ bytes[1] # ""
    THEN <<"data:image/jpeg;base64,", bytes[1]>>
    ELSE <<>>

IdleGpa ==
    [pc |-> "idle", entry |-> "", userPrompt |-> <<>>, assetType |-> "", styleProfile |-> "",
     refine |-> "none", refineRequest |-> <<>>, refineText |-> <<>>,
     imagePrompt |-> <<>>, result |-> <<>>, image |-> <<>>, handler |-> "none",
     vfx |-> <<>>, requests |-> <<>>]

-----------------------------------------------------------------------------
(* The mask rasterizer of the canvas editor, src/App.tsx 888-928 and       *)
(* 1135-1226.  A pixel is the RGBA quadruple getImageData gives (8 bits a  *)
(* channel, not premultiplied); a bitmap is the row-major sequence of its  *)
(* pixels.                                                                 *)

ChannelMax == 255

Pixel(r, g, b, a) == [r |-> r, g |-> g, b |-> b, a |-> a]

Transparent == Pixel(0, 0, 0, 0)
Black       == Pixel(0, 0, 0, ChannelMax)
White       == Pixel(ChannelMax, ChannelMax, ChannelMax, ChannelMax)

\* division rounded to the nearest integer
RoundDiv(x, d) == (2 * x + d) \div (2 * d)

\* strokeStyle 'rgba(255, 255, 255, 0.7)': the ink's alpha on 8 bits
InkAlpha == RoundDiv(7 * ChannelMax, 10)

\* how much of a pixel a stroke covers: all of it, or half of it at the
\* stroke's anti-aliased edge
Coverages == {ChannelMax, ChannelMax \div 2 + 1}

\* globalCompositeOperation 'source-over': src drawn over dst
SourceOver(dst, src) ==
    LET a == src.a + RoundDiv(dst.a * (ChannelMax - src.a), ChannelMax)
        ch(s, d) == RoundDiv(s * src.a * ChannelMax + d * dst.a * (ChannelMax - src.a),
                             a * ChannelMax)
    IN  IF a = 0 THEN Transparent
        ELSE Pixel(ch(src.r, dst.r), ch(src.g, dst.g), ch(src.b, dst.b), a)

\* globalCompositeOperation 'destination-out': dst kept where src is absent
DestinationOut(dst, src) ==
    LET a == RoundDiv(dst.a * (ChannelMax - src.a), ChannelMax)
    IN  IF a = 0 THEN Transparent ELSE [dst EXCEPT !.a = a]

\* draw: one stroke segment reaching pixel p with the given coverage
StrokePixel(px, erasing, coverage) ==
    IF erasing
    THEN DestinationOut(px, Pixel(0, 0, 0, coverage))
    ELSE SourceOver(px, Pixel(ChannelMax, ChannelMax, ChannelMax,
                              RoundDiv(InkAlpha * coverage, ChannelMax)))

NoCanvas ==
    [present |-> FALSE, width |-> 0, height |-> 0, data |-> <<>>,
     listening |-> FALSE, isErasing |-> FALSE, strokes |-> 0]

Blank(w, h) == [p \in 1..(w * h) |-> Transparent]

\* the pixel loop testing the red channel against a threshold instead
Binarize_Threshold(px) == IF px.a > 0 /\ px.r > ChannelMax \div 2 THEN White ELSE px

\* getMaskFile: if (data[i + 3] > 0) { data[i] = 255; ... data[i + 3] = 255 }
Binarize(px) == IF px.a > 0 THEN White ELSE px

\* getMaskFile without the test `if (!pixelBuffer.some(color => color !== 0))`
getMaskFile_NoBlankCheck(cv) ==
    IF ~cv.present THEN <<>>
    ELSE << [width |-> cv.width, height |-> cv.height,
             data |-> [p \in 1..(cv.width * cv.height) |->
                          Binarize(SourceOver(Black, cv.data[p]))]] >>

\* getMaskFile with the blank test inverted: some(...) without the `!`
getMaskFile_InvertedBlankTest(cv) ==
    IF ~cv.present THEN <<>>
    ELSE IF \E p \in 1..Len(cv.data) : cv.data[p] # Transparent THEN <<>>
    ELSE << [width |-> cv.width, height |-> cv.height,
             data |-> [p \in 1..(cv.width * cv.height) |->
                          Binarize(SourceOver(Black, cv.data[p]))]] >>

\* getMaskFile: null (<<>>) for a missing or blank canvas, else the PNG file
\* of the overlay drawn over black and binarized, given by its bitmap
getMaskFile(cv) ==
    IF ~cv.present THEN <<>>
    ELSE IF \A p \in 1..Len(cv.data) : cv.data[p] = Transparent THEN <<>>
    ELSE << [width |-> cv.width, height |-> cv.height,
             data |-> [p \in 1..(cv.width * cv.height) |->
                          Binarize(SourceOver(Black, cv.data[p]))]] >>

NoMask == [called |-> FALSE, overlay |-> <<>>, file |-> <<>>]

-----------------------------------------------------------------------------
(* The content requests of src/services/geminiService.ts: the parts a       *)
(* service function sends and what it extracts from the response.  A part  *)
(* is an inline file ([inlineData |-> <<file>>]) or a text ([text |-> t]). *)

\* fileToGenerativePart(file): { inlineData: { data, mimeType: file.type } }
InlinePart(file) == [kind |-> "inlineData", mimeType |-> file.type, data |-> file.data]

TextPart(text) == [kind |-> "text", text |-> text]

\* the files a caller passes: the image to edit and the stencil of getMaskFile
ImageFile == [type |-> "image/jpeg", data |-> "IMG"]
MaskFile  == [type |-> "image/png", data |-> "MASK"]

MaskedPhrase == <<"Using the mask, apply this change:">>

GlobalPhrase == <<"Apply this change globally:">>

\* editGameAsset with the global phrasing in both branches
EditFinalPrompt_AlwaysGlobal(maskFile, instruction) ==
    <<"Game Asset Editing Task.", "Apply this change globally:", "\"">> \o instruction
    \o <<"\".", "Maintain visual consistency.">>

\* editGameAsset: finalPrompt, `maskFile` being <<>> for null
EditFinalPrompt(maskFile, instruction) ==
    IF maskFile # <<>>
    THEN <<"Game Asset Editing Task.", "Using the mask, apply this change:", "\"">>
         \o instruction \o <<"\".", "Maintain the existing art style perfectly.">>
    ELSE <<"Game Asset Editing Task.", "Apply this change globally:", "\"">>
         \o instruction \o <<"\".", "Maintain visual consistency.">>

\* editGameAsset pushing the text before the mask
EditParts_MaskLast(image, maskFile, instruction) ==
    <<InlinePart(image), TextPart(EditFinalPrompt(maskFile, instruction))>>
    \o (IF maskFile # <<>> THEN <<InlinePart(maskFile[1])>> ELSE <<>>)

\* editGameAsset: parts = [imagePart]; if (mask) parts.push(maskPart);
\* parts.push({ text: finalPrompt })
EditParts(image, maskFile, instruction) ==
    <<InlinePart(image)>>
    \o (IF maskFile # <<>> THEN <<InlinePart(maskFile[1])>> ELSE <<>>)
    \o <<TextPart(EditFinalPrompt(maskFile, instruction))>>

\* generateVfxAsset: the prompt built from params (scale, contrast,
\* complexity, edge and vibe left undefined take their defaults)
VfxPrompt(params) ==
    IF params.category = "noise"
    THEN <<"Seamless tileable", params.type, "noise texture.", "Scale: Standard.",
           "Contrast: High.", "Complexity: Standard.">>
    ELSE <<"Light cookie texture (gobo) pattern:", params.type, "Aperture Shape:",
           IF params.aperture = <<>> THEN "Square" ELSE params.aperture[1],
           "Edge Softness: Sharp.", "Cleanliness: Clean.">>

CircularBeamClause == <<"MUST be a circular beam in the center of a black square.">>

\* generateVfxAsset: techSpecs
VfxTechSpecs(params) ==
    IF params.category = "noise"
    THEN <<"Technical requirements: Grayscale heightmap,", "Suitable for VFX shaders.">>
    ELSE <<"Technical requirements: High contrast Black and White only.">>
         \o (IF params.aperture = <<"Circular (Flashlight)">>
             THEN CircularBeamClause ELSE <<>>)

VfxParams ==
    {[category |-> "noise", type |-> "Perlin Noise", aperture |-> <<>>]}
    \cup {[category |-> "cookie", type |-> "Jail Bars", aperture |-> a] :
              a \in {<<>>, <<"Circular (Flashlight)">>}}

\* generateVfxAsset, quality 'draft': the parts of the request
VfxDraftParts(params) ==
    <<TextPart(<<"Generate a preview texture:">> \o VfxPrompt(params) \o VfxTechSpecs(params))>>

\* paintUVTexture: parts: [imagePart, { text: prompt }]
PaintUVParts(uvImage, objectType, style, colors) ==
    <<InlinePart(uvImage),
      TextPart(<<"Act as a 3D Texture Artist.", "Target Object:">> \o objectType
               \o <<"Art Style:">> \o style \o <<"Color Palette:">> \o colors
               \o <<"Instructions:">>)>>

\* the parts a response's first candidate can hold: texts and inline images
ResponsePart ==
    {TextPart(<<"Here is the image.">>),
     [kind |-> "inlineData", mimeType |-> "image/png", data |-> "OUT"]}

RECURSIVE PartsOfLen(_)
PartsOfLen(n) ==
    IF n = 0 THEN {<<>>}
    ELSE {Append(ps, q) : ps \in PartsOfLen(n - 1), q \in ResponsePart}

\* response.candidates?.[0]?.content?.parts: <<>> also stands for a response
\* without candidates
ResponseParts == UNION {PartsOfLen(n) : n \in 0..MaxParts}

ImageFunctions == {"editGameAsset", "generateVfxAsset", "paintUVTexture"}

\* the message of the Error an image function throws
FailureMessage(fn) ==
    CASE fn = "editGameAsset"    -> "Edit generation failed."
      [] fn = "generateVfxAsset" -> "Draft generation failed."
      [] fn = "paintUVTexture"   -> "UV Painting failed. Please try a different image or prompt."
      [] fn = "analyzeForEngine" -> "Analysis failed to produce valid report."
      [] OTHER                   -> "Failed to generate asset."

Returned(value) == [ok |-> TRUE, value |-> value]

Thrown(message) == [ok |-> FALSE, value |-> message]

\* editGameAsset, generateVfxAsset (draft), paintUVTexture:
\* const firstPart = response.candidates?.[0]?.content?.parts?.[0];
\* if (firstPart?.inlineData) return `data:${mimeType};base64,${data}`; throw
FirstInlineImage(fn, parts) ==
    IF Len(parts) >= 1 /\ parts[1].kind = "inlineData"
    THEN Returned(<<"data:", parts[1].mimeType, ";base64,", parts[1].data>>)
    ELSE Thrown(FailureMessage(fn))

TextFunctions == {"extractVisualStyle", "reverseEngineerPrompt", "extractTextureFromImage"}

\* the text after `response.text ||` in a text function
DefaultText(fn) ==
    CASE fn = "extractVisualStyle"      -> <<"High quality game art style.">>
      [] fn = "reverseEngineerPrompt"   -> <<"Could not analyze image.">>
      [] fn = "extractTextureFromImage" -> <<"A detailed game texture">>

\* response.text is undefined or the empty string
Falsy(responseText) == responseText = <<>> \/ responseText[1] = <<>>

\* extractVisualStyle, reverseEngineerPrompt: return response.text || "...";
\* extractTextureFromImage: materialDescription = analysisResponse.text || "..."
TextOrDefault(fn, responseText) ==
    IF Falsy(responseText) THEN DefaultText(fn) ELSE responseText[1]

ReportKeys == {"critique", "technicalIssues", "engineSuggestions", "remasterPrompt"}

\* response.text of the analysis: undefined, the empty string, a text that is
\* not JSON, the JSON text null, or a JSON object with some of the keys
JsonTexts ==
    {[kind |-> k, keys |-> {}] : k \in {"undefined", "empty", "malformed", "null"}}
    \cup {[kind |-> "object", keys |-> ks] : ks \in SUBSET ReportKeys}

\* analyzeForEngine: try { return JSON.parse(response.text || "{}") }
\* catch { throw new Error("Analysis failed to produce valid report.") }
analyzeForEngine(text) ==
    CASE text.kind \in {"undefined", "empty"} -> Returned([kind |-> "object", keys |-> {}])
      [] text.kind = "malformed" -> Thrown(FailureMessage("analyzeForEngine"))
      [] OTHER                   -> Returned(text)

\* a parsed JSON value as a condition: an object is truthy, null is not
Truthy(value) == value.kind = "object"

IdleSvc ==
    [pc |-> "idle", fn |-> "", mask |-> <<>>, instruction |-> <<>>, parts |-> <<>>,
     response |-> <<>>, result |-> <<>>]

\* editImageWithPrompt(originalImage, maskFile, editPrompt) of the canvas
\* editor: the parts of its request, [reference image, mask, text], the text
\* with the masked-region or the apply-globally phrasing
editImageWithPrompt(image, maskFile, prompt) == EditParts(image, maskFile, prompt)

\* the edit prompts the canvas editor submits
EditPrompts == {<<>>, <<"mossy stone wall">>}

IdleEdit ==
    [pc |-> "idle", blank |-> TRUE, maskFile |-> <<>>, editPrompt |-> <<>>,
     parts |-> <<>>, error |-> FALSE]

\* the multi-concept generations of the canvas editor: handleGenerateLogos
\* ('Generate 4 Concepts') and handleGenerateBanners ('Generate 2 Concepts')
BatchKinds == {"logo", "banner"}

LogoConcepts == 4

BannerConcepts == 2

Concepts(kind) == IF kind = "logo" THEN LogoConcepts ELSE BannerConcepts

\* generateLogoConcepts / generateBanners: N requests issued together and
\* joined all-or-nothing: the call rejects as soon as one request has
\* rejected and resolves, with the N images, once all have resolved
JoinAll(requests) ==
    IF \E i \in 1..Len(requests) : requests[i] = "rejected" THEN "rejected"
    ELSE IF \A i \in 1..Len(requests) : requests[i] = "resolved" THEN "resolved"
    ELSE "pending"

\* the result of a resolved batch: one URL for each request
ResultUrls(kind) == [i \in 1..Concepts(kind) |-> <<"data:image/png;base64,", kind, i>>]

\* handleGenerateLogos without setGeneratedLogos([]) before the call
handleGenerateLogos_KeepsOldConcepts(ev, prompt) ==
    CASE ev = "click"    -> IF ~prompt THEN <<"setError(message)">>
                            ELSE <<"setIsLoading(true)", "setError(null)", "await">>
      [] ev = "resolved" -> <<"setGenerated(resultUrls)", "setIsLoading(false)">>
      [] ev = "rejected" -> <<"setError(message)", "setIsLoading(false)">>

handleGenerateLogos(ev, prompt) ==
    CASE ev = "click"    -> IF ~prompt THEN <<"setError(message)">>
                            ELSE <<"setIsLoading(true)", "setGenerated([])",
                                   "setError(null)", "await">>
      [] ev = "resolved" -> <<"setGenerated(resultUrls)", "setIsLoading(false)">>
      [] ev = "rejected" -> <<"setError(message)", "setIsLoading(false)">>

handleGenerateBanners(ev, prompt) ==
    CASE ev = "click"    -> IF ~prompt THEN <<"setError(message)">>
                            ELSE <<"setIsLoading(true)", "setGenerated([])",
                                   "setError(null)", "await">>
      [] ev = "resolved" -> <<"setGenerated(resultUrls)", "setIsLoading(false)">>
      [] ev = "rejected" -> <<"setError(message)", "setIsLoading(false)">>

BatchHandler(kind, ev, prompt) ==
    IF kind = "logo" THEN handleGenerateLogos(ev, prompt)
    ELSE handleGenerateBanners(ev, prompt)

\* one statement of a batch handler, on the state b of the canvas editor
BatchEffect(b, kind, e) ==
    CASE e = "setIsLoading(true)"       -> [b EXCEPT !.loading[kind] = TRUE]
      [] e = "setIsLoading(false)"      -> [b EXCEPT !.loading[kind] = FALSE]
      [] e = "setGenerated([])"         -> [b EXCEPT !.generated[kind] = <<>>]
      [] e = "setGenerated(resultUrls)" -> [b EXCEPT !.generated[kind] = ResultUrls(kind)]
      [] e = "setError(null)"           -> [b EXCEPT !.error = FALSE]
      [] e = "setError(message)"        -> [b EXCEPT !.error = TRUE]
      [] e = "await"                    ->
            [b EXCEPT !.requests[kind] = [i \in 1..Concepts(kind) |-> "pending"],
                      !.outcome[kind] = "pending"]

RECURSIVE BatchExec(_, _, _)
BatchExec(b, kind, effects) ==
    IF effects = <<>> THEN b
    ELSE BatchExec(BatchEffect(b, kind, Head(effects)), kind, Tail(effects))

\* generatedLogos / generatedBanners, isLoadingLogos / isLoadingBanners and
\* error of the canvas editor; requests and outcome: the requests of the
\* last batch of each kind, and how its join ended
IdleBatch ==
    [generated |-> [k \in BatchKinds |-> <<>>],
     loading   |-> [k \in BatchKinds |-> FALSE],
     error     |-> FALSE,
     requests  |-> [k \in BatchKinds |-> <<>>],
     outcome   |-> [k \in BatchKinds |-> "none"]]

-----------------------------------------------------------------------------
(* The application: Spec. *)

InitApp ==
    /\ activeModule = "inspector"
    /\ local = InitLocal("inspector")
    /\ library = <<>>
    /\ clock = 0
    /\ ops = EmptyBag
    /\ tally = [resolved |-> 0, rejected |-> 0, done |-> 0, saves |-> 0]
    /\ lastCall = [kind |-> "none", id |-> "", absent |-> FALSE, again |-> FALSE]

InitPrompt == gpa = IdleGpa

InitMask == canvas = NoCanvas /\ mask = NoMask

InitContent == svc = IdleSvc

InitEdit == edit = IdleEdit

InitBatch == batch = IdleBatch

Init == InitApp /\ InitPrompt /\ InitMask /\ InitContent /\ InitEdit /\ InitBatch

\* a user gesture on the control of handler h in the mounted component; a
\* run is started only while a later reading of the clock is left for it
\* The run keeps the generatedItems of the render it was started in (o.seen):
\* handleGenerate reads the variable of its closure after the await.  At most
\* `limit` runs are started in one behaviour
Start(h, limit) ==
    /\ ControlEnabled(h, local)
    /\ LET c == Exec(Context(local, TRUE, SavedType(h, local), FALSE, clock),
                     HandlerEffects(h, "click", local))
       IN  /\ c.awaiting => Started < limit /\ clock < MaxClock
           /\ local' = c.st
           /\ library' = c.library
           /\ tally' = [tally EXCEPT !.saves = c.saves]
           /\ ops' = IF c.awaiting
                     THEN ops (+) SetToBag({[h |-> h, type |-> SavedType(h, local),
                                             mounted |-> TRUE, fresh |-> TRUE,
                                             seen |-> IF h = "InterfaceStudio.handleGenerate"
                                                      THEN local.items ELSE <<>>]})
                     ELSE ops
    /\ UNCHANGED <<activeModule, clock, lastCall, gpa, canvas, mask, svc, edit, batch>>

Click(h) == Start(h, MaxOps)

ClickAnalyze ==
    activeModule = ModuleOf("Inspector.handleAnalyze") /\ Click("Inspector.handleAnalyze")
ClickRemaster ==
    activeModule = ModuleOf("Inspector.handleRemaster") /\ Click("Inspector.handleRemaster")
ChooseStyleFile ==
    activeModule = ModuleOf("InterfaceStudio.handleAnalyzeStyle") /\ Click("InterfaceStudio.handleAnalyzeStyle")
ClickGenerateUi ==
    activeModule = ModuleOf("InterfaceStudio.handleGenerate") /\ Click("InterfaceStudio.handleGenerate")
ClickGenerateLogo ==
    activeModule = ModuleOf("LogoStudio.handleGenerate") /\ Click("LogoStudio.handleGenerate")
ClickGenerateBanner ==
    activeModule = ModuleOf("EnvironmentStudio.handleGenerate") /\ Click("EnvironmentStudio.handleGenerate")
ClickForgeTexture ==
    activeModule = ModuleOf("TextureForge.handleGenerate") /\ Click("TextureForge.handleGenerate")
ChooseTextureFile ==
    activeModule = ModuleOf("TextureForge.handleProcessImage") /\ Click("TextureForge.handleProcessImage")
ClickGenerateVfx ==
    activeModule = ModuleOf("VFXStudio.handleGenerate") /\ Click("VFXStudio.handleGenerate")
ClickApplyEdit ==
    activeModule = ModuleOf("AssetEditor.handleEdit") /\ Click("AssetEditor.handleEdit")
ClickGetPrompt ==
    activeModule = ModuleOf("AssetEditor.handleGetPrompt") /\ Click("AssetEditor.handleGetPrompt")

\* the runs still pending once the clock was read at `now`: o.fresh tells
\* that run o started after the last reading of the clock
Aged(pending, now) ==
    IF now = clock THEN pending
    ELSE LET old(o) == [o EXCEPT !.fresh = FALSE]
             new(o) == [o EXCEPT !.fresh = TRUE]
             n(o)   == IF o \in DOMAIN pending THEN pending[o] ELSE 0
         IN  [r \in {old(o) : o \in DOMAIN pending} |-> n(r) + n(new(r))]

\* the handler run o leaves its await with event ev; the handler's next
\* reading of Date.now() is `now`.  A request to the external service takes
\* more than a millisecond: a run started after the last reading ends at a
\* later one, while runs pending together can end at the same reading
Settle(o, ev, data, now) ==
    LET c == Exec([Context(local, o.mounted, o.type, data, now) EXCEPT !.seen = o.seen],
                  HandlerEffects(o.h, ev, local))
    IN  /\ o.fresh => now > clock
        /\ local' = c.st
        /\ clock' = now
        /\ library' = c.library
        /\ ops' = Aged(ops (-) SetToBag({o}), now)
        /\ tally' = [resolved |-> tally.resolved + (IF ev = "resolved" /\ o.type # "none" THEN 1 ELSE 0),
                     done     |-> tally.done + (IF ev = "resolved" /\ o.type = "none" THEN 1 ELSE 0),
                     rejected |-> tally.rejected + (IF ev = "rejected" THEN 1 ELSE 0),
                     saves    |-> c.saves]

\* every request of run o's service function resolved; `usable` tells whether
\* the last response carries the payload the service function extracts,
\* `data` whether the parsed report is a truthy value
CallResolves ==
    /\ \E o \in BagToSet(ops), usable \in BOOLEAN, data \in BOOLEAN, now \in clock..MaxClock :
         /\ (data => usable /\ o.h = "Inspector.handleAnalyze")
         /\ (~ThrowsOnEmpty(o.h) => usable)
         /\ Settle(o, IF usable THEN "resolved" ELSE "rejected", data, now)
    /\ UNCHANGED <<activeModule, lastCall, gpa, canvas, mask, svc, edit, batch>>

\* one of the requests of run o's service function rejects: the service
\* function rejects at that stage, whichever it is, and the handler's catch
\* block runs
CallRejects ==
    /\ \E o \in BagToSet(ops), now \in clock..MaxClock :
         \E stage \in 1..Len(ServiceCalls(o.h)) : Settle(o, "rejected", FALSE, now)
    /\ UNCHANGED <<activeModule, lastCall, gpa, canvas, mask, svc, edit, batch>>

\* a sidebar item: setActiveModule(m) unmounts the current component (its
\* pending runs go on) and mounts a fresh one
SwitchModule ==
    /\ \E m \in Modules \ {activeModule} :
         /\ activeModule' = m
         /\ local' = InitLocal(m)
    /\ ops' = LET off(o) == [o EXCEPT !.mounted = FALSE]
                  on(o)  == [o EXCEPT !.mounted = TRUE]
                  n(o)   == IF o \in DOMAIN ops THEN ops[o] ELSE 0
              IN  [r \in {off(o) : o \in DOMAIN ops} |-> n(r) + n(on(r))]
    /\ UNCHANGED <<library, clock, tally, lastCall, gpa, canvas, mask, svc, edit, batch>>

\* typing in (or emptying) the textarea of the mounted component
TypePrompt ==
    /\ \/ activeModule \in {"logo", "environment", "editor", "interface"}
       \/ activeModule = "texture" /\ local.mode = "create"
    /\ local' = [local EXCEPT !.prompt = ~local.prompt]
    /\ UNCHANGED <<activeModule, library, clock, ops, tally, lastCall, gpa, canvas, mask, svc,
                   edit, batch>>

\* Inspector.handleUpload and AssetEditor.handleUpload; the file input is
\* rendered while no preview is shown
Upload ==
    /\ activeModule \in {"inspector", "editor"}
    /\ ~local.image
    /\ local' = [local EXCEPT !.image = TRUE, !.report = FALSE, !.remastered = FALSE]
    /\ UNCHANGED <<activeModule, library, clock, ops, tally, lastCall, gpa, canvas, mask, svc,
                   edit, batch>>

\* the Inspector's clear button: setImage(null); setPreviewUrl(null); setReport(null)
ClearImage ==
    /\ activeModule = "inspector"
    /\ local.image
    /\ local' = [local EXCEPT !.image = FALSE, !.report = FALSE]
    /\ UNCHANGED <<activeModule, library, clock, ops, tally, lastCall, gpa, canvas, mask, svc,
                   edit, batch>>

\* the mode tabs of TextureForge and VFXStudio
SetMode ==
    /\ \E md \in (IF activeModule = "texture" THEN {"create", "extract", "seamless"}
                  ELSE IF activeModule = "vfx" THEN {"noise", "cookie"} ELSE {}) :
         /\ md # local.mode
         /\ local' = [local EXCEPT !.mode = md]
    /\ UNCHANGED <<activeModule, library, clock, ops, tally, lastCall, gpa, canvas, mask, svc,
                   edit, batch>>

\* the delete button of an asset in AssetLibrary: onDelete(asset.id)
ClickDelete ==
    /\ activeModule = "library"
    /\ \E i \in 1..Len(library) : library' = deleteFromLibrary(library, library[i].id)
    /\ UNCHANGED <<activeModule, local, clock, ops, tally, lastCall, gpa, canvas, mask, svc,
                   edit, batch>>

Next ==
    \/ ClickAnalyze \/ ClickRemaster \/ ChooseStyleFile \/ ClickGenerateUi
    \/ ClickGenerateLogo \/ ClickGenerateBanner \/ ClickForgeTexture
    \/ ChooseTextureFile \/ ClickGenerateVfx \/ ClickApplyEdit \/ ClickGetPrompt
    \/ CallResolves \/ CallRejects
    \/ SwitchModule \/ TypePrompt \/ Upload \/ ClearImage \/ SetMode
    \/ ClickDelete

Spec == Init /\ [][Next]_vars

\* a sidebar item used while no run is in flight: the component stays mounted
\* until the runs it started have ended
SwitchWhenIdle == ops = EmptyBag /\ SwitchModule

NextLive ==
    \/ ClickAnalyze \/ ClickRemaster \/ ChooseStyleFile \/ ClickGenerateUi
    \/ ClickGenerateLogo \/ ClickGenerateBanner \/ ClickForgeTexture
    \/ ChooseTextureFile \/ ClickGenerateVfx \/ ClickApplyEdit \/ ClickGetPrompt
    \/ CallResolves \/ CallRejects
    \/ SwitchWhenIdle \/ TypePrompt \/ Upload \/ ClearImage \/ SetMode
    \/ ClickDelete

\* the application when every call of the external service settles and the
\* user stays in a module while its runs are in flight
SpecLive == Init /\ [][NextLive]_vars /\ WF_vars(CallResolves \/ CallRejects)


-----------------------------------------------------------------------------
(* InterfaceStudio on its own: SpecInterface.  The user opens the module   *)
(* and stays in it; its two handlers run as often as the controls allow.   *)

OpenInterfaceStudio == SwitchModule /\ activeModule' = "interface"

\* the file input of the style reference: handleAnalyzeStyle(e.target.files[0])
ChooseStyleReference ==
    /\ activeModule = "interface"
    /\ Start("InterfaceStudio.handleAnalyzeStyle", MaxUiRuns)

\* the GENERATE COMPONENT button
ClickGenerateComponent ==
    /\ activeModule = "interface"
    /\ Start("InterfaceStudio.handleGenerate", MaxUiRuns)

NextInterface ==
    \/ OpenInterfaceStudio \/ TypePrompt
    \/ ChooseStyleReference \/ ClickGenerateComponent
    \/ CallResolves \/ CallRejects

SpecInterface == Init /\ [][NextInterface]_vars

-----------------------------------------------------------------------------
(* The registry operations on their own: SpecRegistry.  addToLibrary and   *)
(* deleteFromLibrary are called with any asset type, any clock reading not *)
(* earlier than the last one, and any id, present in the registry or not.  *)

RegistryAdd ==
    /\ tally.saves < MaxAdds
    /\ \E type \in AssetTypes, now \in clock..MaxClock :
         LET c == Effect(Context(local, FALSE, type, FALSE, now), "onSave")
         IN  /\ library' = c.library
             /\ tally' = [tally EXCEPT !.saves = c.saves]
             /\ clock' = now
             /\ lastCall' = [kind |-> "add", id |-> c.asset.id, absent |-> FALSE, again |-> FALSE]
    /\ UNCHANGED <<activeModule, local, ops, gpa, canvas, mask, svc, edit, batch>>

RegistryDelete ==
    /\ \E k \in 0..MaxClock :
         LET id == ToString(k)
         IN  /\ library' = deleteFromLibrary(library, id)
             /\ lastCall' = [kind |-> "delete", id |-> id,
                             absent |-> ~HasId(library, id),
                             again |-> lastCall.kind = "delete" /\ lastCall.id = id]
    /\ UNCHANGED <<activeModule, local, clock, ops, tally, gpa, canvas, mask, svc, edit, batch>>

NextRegistry == RegistryAdd \/ RegistryDelete

SpecRegistry == Init /\ [][NextRegistry]_vars

-----------------------------------------------------------------------------
(* Claims about the session registry. *)

\* C1: no two assets of the registry share an id, whatever generations
\* completed (also two in flight together that complete at the same clock
\* reading) and whatever was deleted.
C1_IdsPairwiseDistinct ==
    \A i, j \in 1..Len(library) : i # j => library[i].id # library[j].id

\* C2: addToLibrary is called exactly once for every generation whose service
\* call resolved with a URL, and never for a run that has not resolved: at
\* every moment the number of onSave calls equals the number of generation
\* runs that resolved.
C2_SavedOncePerResolvedGeneration ==
    /\ tally.saves = tally.resolved
    /\ Len(library) <= tally.resolved

\* C2 witness: a generation resolved and was saved while another run is
\* still awaiting its service call.
C2_Witness ==
    /\ tally.resolved = 1
    /\ Len(library) = 1
    /\ BagCardinality(ops) = 1

\* C3: a generation or analysis run that fails (its service call rejected at
\* some stage, or returned nothing usable) leaves the registry exactly as it
\* was: neither the user action that starts a run nor the step in which the
\* run fails appends, removes or reorders anything.
C3_FailureLeavesRegistry ==
    [][(tally'.rejected > tally.rejected \/ BagCardinality(ops') > BagCardinality(ops))
         => library' = library /\ tally'.saves = tally.saves]_vars

\* C3 witness: a run has failed while the registry holds an asset.
C3_Witness ==
    /\ tally.rejected >= 1
    /\ Len(library) >= 1

\* C4: deleteFromLibrary is idempotent and total: after deleteFromLibrary(id)
\* no entry has that id, and a call with an id the registry does not hold
\* (never present, or deleted by an earlier call) leaves the registry as it is.
C4_DeleteIdempotent ==
    [][lastCall'.kind = "delete"
         => /\ ~HasId(library', lastCall'.id)
            /\ (~HasId(library, lastCall'.id) => library' = library)]_vars

\* C4 witness: the same id was deleted a second time from a registry that
\* still holds other assets.
C4_Witness ==
    /\ lastCall.kind = "delete"
    /\ lastCall.again
    /\ lastCall.absent
    /\ Len(library) >= 1

\* C30: deleteFromLibrary(id) removes exactly the entries whose id is the
\* argument: the registry after the call is made of the other entries, each
\* with the fields it had and at the rank it had among them, and it is never
\* longer than before.
C30_DeleteRemovesExactlyTheId ==
    [][lastCall'.kind = "delete"
         => LET keep == {i \in 1..Len(library) : library[i].id # lastCall'.id}
            IN  /\ Len(library') = Cardinality(keep)
                /\ Len(library') <= Len(library)
                /\ \A i \in keep :
                      library'[Cardinality({j \in keep : j <= i})] = library[i]]_vars

\* C30 witness: an id the registry held was deleted and two other assets
\* are left.
C30_Witness ==
    /\ lastCall.kind = "delete"
    /\ ~lastCall.absent
    /\ Len(library) = 2

\* C5: the registry is newest-first: the assets appear in the reverse of the
\* order of their addToLibrary calls, the latest surviving one at index 1.
C5_NewestFirst ==
    \A i, j \in 1..Len(library) : i < j => library[i].n > library[j].n

\* C5 witness: two assets saved by two handler runs are both in the registry.
C5_Witness ==
    /\ Len(library) = 2
    /\ tally.resolved = 2


-----------------------------------------------------------------------------
(* One run of generateProfessionalAsset, entered directly or through       *)
(* generateVisualElement: SpecPrompt.                                      *)

\* generateProfessionalAsset(userPrompt, assetType, styleProfile) up to the
\* await of enhancePrompt: the refinement request is sent
Entered(entry, userPrompt, assetType, styleProfile) ==
    [IdleGpa EXCEPT
       !.pc = "enhancing", !.entry = entry, !.userPrompt = userPrompt,
       !.assetType = assetType, !.styleProfile = styleProfile,
       !.refine = "pending", !.requests = <<"generateContent">>,
       !.refineRequest = SystemPrompt(userPrompt,
                                      EnhanceContext(assetType, styleProfile),
                                      SpecificConstraints(assetType))]

Enter(entry, userPrompt, assetType, styleProfile) ==
    /\ gpa' = Entered(entry, userPrompt, assetType, styleProfile)
    /\ UNCHANGED <<activeModule, local, library, clock, ops, tally, lastCall, canvas, mask,
                   svc, edit, batch>>

CallGenerateProfessionalAsset ==
    /\ gpa.pc = "idle"
    /\ \E userPrompt \in Texts, assetType \in GpaAssetTypes, styleProfile \in Styles :
         Enter("generateProfessionalAsset", userPrompt, assetType, styleProfile)

\* generateVisualElement: return generateProfessionalAsset(prompt, 'ui-visual',
\* 'Visual Style Clone', '1:1')
CallGenerateVisualElement ==
    /\ gpa.pc = "idle"
    /\ \E styleGuide \in Texts, itemDescription \in Texts :
         Enter("generateVisualElement", VisualElementPrompt(styleGuide, itemDescription),
               "ui-visual", "Visual Style Clone")

\* generateVfxAsset(params, 'pro'): return generateProfessionalAsset(prompt,
\* params.category, 'Technical Art', '1:1'); gpa.vfx is a history field, the
\* params of the call
CallGenerateVfxAssetPro ==
    /\ gpa.pc = "idle"
    /\ \E params \in VfxParams :
         gpa' = [Entered("generateVfxAsset", VfxPrompt(params), params.category,
                         "Technical Art") EXCEPT !.vfx = <<params>>]
    /\ UNCHANGED <<activeModule, local, library, clock, ops, tally, lastCall, canvas, mask,
                   svc, edit, batch>>

\* the art director answers; generateProfessionalAsset sends the image request
EnhanceResolves ==
    /\ gpa.pc = "enhancing"
    /\ \E text \in ResponseTexts :
         gpa' = [gpa EXCEPT !.pc = "imaging", !.refine = "resolved", !.refineText = text,
                            !.requests = Append(gpa.requests, "generateImages"),
                            !.imagePrompt = <<EnhancedPrompt(text, gpa.userPrompt)>>]
    /\ UNCHANGED <<activeModule, local, library, clock, ops, tally, lastCall, canvas, mask,
                   svc, edit, batch>>

\* the refinement request rejects: the await in enhancePrompt throws, nothing
\* catches it and generateProfessionalAsset rejects
EnhanceRejects ==
    /\ gpa.pc = "enhancing"
    /\ gpa' = [gpa EXCEPT !.pc = "thrown", !.refine = "rejected"]
    /\ UNCHANGED <<activeModule, local, library, clock, ops, tally, lastCall, canvas, mask,
                   svc, edit, batch>>

\* generateImages answers; gpa.image is a history field, the answer's
\* generatedImages?.[0]?.image.imageBytes: <<>> in it is no image
ImagesResolve ==
    /\ gpa.pc = "imaging"
    /\ \E bytes \in ImageBytes :
         LET url == ProfessionalAssetResult(bytes)
         IN  gpa' = [gpa EXCEPT !.pc = IF url = <<>> THEN "thrown" ELSE "returned",
                                !.result = url, !.image = <<bytes>>]
    /\ UNCHANGED <<activeModule, local, library, clock, ops, tally, lastCall, canvas, mask,
                   svc, edit, batch>>

\* generateImages rejects and the request is sent once more
ImagesReject_RetryOnce ==
    /\ gpa.pc = "imaging"
    /\ gpa' = IF Len(gpa.requests) < 3
              THEN [gpa EXCEPT !.requests = Append(gpa.requests, "generateImages")]
              ELSE [gpa EXCEPT !.pc = "thrown"]
    /\ UNCHANGED <<activeModule, local, library, clock, ops, tally, lastCall, canvas, mask,
                   svc, edit, batch>>

\* generateImages rejects: nothing catches it, generateProfessionalAsset rejects
ImagesReject ==
    /\ gpa.pc = "imaging"
    /\ gpa' = [gpa EXCEPT !.pc = "thrown"]
    /\ UNCHANGED <<activeModule, local, library, clock, ops, tally, lastCall, canvas, mask,
                   svc, edit, batch>>

\* TextureForge.handleGenerate after its await: the call it made was
\* generateProfessionalAsset(prompt, 'texture', 'PBR Material', '1:1') with a
\* non-empty prompt; url is the value the call returned
TextureForgeContinues ==
    /\ gpa.pc \in {"returned", "thrown"}
    /\ gpa.handler = "none"
    /\ gpa.entry = "generateProfessionalAsset"
    /\ gpa.assetType = "texture"
    /\ gpa.styleProfile = "PBR Material"
    /\ gpa.userPrompt # <<>>
    /\ \E now \in clock..MaxClock :
         LET ev  == IF gpa.pc = "returned" THEN "resolved" ELSE "rejected"
             ctx == Context(local, activeModule = "texture", "texture", FALSE, now)
             c   == Exec([ctx EXCEPT !.asset.url = gpa.result],
                         TextureForge_handleGenerate(ev, local))
         IN  /\ local' = c.st
             /\ clock' = now
             /\ library' = c.library
             /\ tally' = [tally EXCEPT !.saves = c.saves]
             /\ gpa' = [gpa EXCEPT !.handler = IF ev = "resolved" THEN "saved" ELSE "alerted"]
    /\ UNCHANGED <<activeModule, ops, lastCall, canvas, mask, svc, edit, batch>>

NextPrompt ==
    \/ CallGenerateProfessionalAsset \/ CallGenerateVisualElement
    \/ CallGenerateVfxAssetPro
    \/ EnhanceResolves \/ EnhanceRejects \/ ImagesResolve \/ ImagesReject
    \/ TextureForgeContinues

SpecPrompt == Init /\ [][NextPrompt]_vars

-----------------------------------------------------------------------------
(* Claims about the prompt pipeline. *)

\* C6: every image-generation request of a generateProfessionalAsset call
\* with assetType 'texture' carries the seamless/tileable clause in its
\* prompt, whatever the user text and whatever the refinement returned.
C6_TexturePromptHasSeamlessClause ==
    (gpa.assetType = "texture" /\ gpa.imagePrompt # <<>>)
        => Contains(gpa.imagePrompt[1], SeamlessClause)

\* C7: every image-generation request of a generateVisualElement call carries
\* the no-text/no-numbers clause in its prompt, whatever the style guide, the
\* item description and the refinement result.
C7_VisualElementPromptHasNoTextClause ==
    (gpa.entry = "generateVisualElement" /\ gpa.imagePrompt # <<>>)
        => Contains(gpa.imagePrompt[1], NoTextClause)

\* C8: when the refinement call resolves with an empty or absent text, the
\* prompt of the image-generation request that follows is the user-supplied
\* text, exactly.
C8_EmptyRefinementFallsBack ==
    (gpa.refine = "resolved" /\ (gpa.refineText = <<>> \/ gpa.refineText = << <<>> >>))
        => gpa.imagePrompt = <<gpa.userPrompt>>

\* C8 witness: the refinement returned the empty text for a non-empty user
\* text and the image request went out.
C8_Witness ==
    /\ gpa.refine = "resolved"
    /\ gpa.refineText = << <<>> >>
    /\ gpa.userPrompt # <<>>
    /\ gpa.pc = "returned"

\* C9: when the refinement request rejects, generateProfessionalAsset still
\* sends the image-generation request, with the user text verbatim, and does
\* not fail because of the refinement.
C9_RefinementFailureFallsBack ==
    gpa.refine = "rejected"
        => /\ gpa.imagePrompt = <<gpa.userPrompt>>
           /\ gpa.pc # "thrown"

\* C18: generateProfessionalAsset returns 'data:image/jpeg;base64,' followed
\* by X exactly when the first generated image of the answer carries
\* non-empty bytes X, and rejects otherwise; after a successful texture
\* generation the registry has gained exactly one entry, of type 'texture',
\* holding that URL, and after a failed one it has gained none.
C18_JpegUrlReturnedAndSaved ==
    gpa.image # <<>> =>
        LET bytes == gpa.image[1]
            good  == bytes # <<>> /\ bytes[1] # ""
        IN  /\ good => gpa.pc = "returned"
                        /\ gpa.result = <<"data:image/jpeg;base64,", bytes[1]>>
            /\ ~good => gpa.pc = "thrown" /\ gpa.result = <<>>
            /\ gpa.handler = "none" => library = <<>>
            /\ gpa.handler = "saved" =>
                   /\ good
                   /\ Len(library) = 1
                   /\ library[1].type = "texture"
                   /\ library[1].url = gpa.result
            /\ gpa.handler = "alerted" => ~good /\ library = <<>>

\* C22: the text generateVfxAsset composes for the 'pro' tier keeps every
\* technical requirement of the text it composes for 'draft' from the same
\* params: when the draft text carries the circular-beam requirement (aperture
\* 'Circular (Flashlight)'), so does what the 'pro' tier hands to the prompt
\* pipeline, the user prompt or the constraints sent with it.
C22_ProKeepsCircularBeam ==
    (gpa.vfx # <<>> /\ Contains(VfxDraftParts(gpa.vfx[1])[1].text, CircularBeamClause))
        => \/ Contains(gpa.userPrompt, CircularBeamClause)
           \/ Contains(gpa.refineRequest, CircularBeamClause)

\* C23: no automatic retry.  One call of the pipeline sends at most one
\* image-generation request, and once a request failed (the refinement or the
\* image request rejected, or the answer held no image) no further request is
\* sent: the step of the failure and every later step leave the requests
\* sent as they were.
C23_NoAutomaticRetry ==
    [][/\ Cardinality({i \in 1..Len(gpa'.requests) : gpa'.requests[i] = "generateImages"}) <= 1
       /\ (gpa.pc = "thrown" \/ gpa'.pc = "thrown") => gpa'.requests = gpa.requests]_vars

\* C23 witness: the image request of a texture generation rejected and the
\* handler's catch block ran: two requests were sent, one of each kind.
C23_Witness ==
    /\ gpa.pc = "thrown"
    /\ gpa.handler = "alerted"
    /\ gpa.image = <<>>
    /\ gpa.requests = <<"generateContent", "generateImages">>

\* C18 witness: a texture generation answered with the bytes "X" and the
\* handler stored the asset.
C18_Witness ==
    /\ gpa.image = << <<"X">> >>
    /\ gpa.handler = "saved"
    /\ Len(library) = 1


-----------------------------------------------------------------------------
(* The paint overlay of the canvas editor and its stencil: SpecMask.        *)
(* `mask` holds the result of a getMaskFile call until the overlay or the  *)
(* brush changes again.                                                    *)

\* the record of a request already sent is dropped when the overlay or the
\* brush changes; a submission still pending is kept
EditAfterCanvasChange == IF edit.pc = "sent" THEN IdleEdit ELSE edit

\* handleImageUpload and the ResizeObserver: the canvas is rendered once an
\* image is loaded, and takes the size of the displayed image; setting the
\* size of a canvas clears it (clearCanvas runs again 100 ms after an upload)
ImageLoaded ==
    /\ \E w \in 1..MaxPixels, h \in 1..MaxPixels :
         /\ w * h <= MaxPixels
         /\ canvas' = [canvas EXCEPT !.present = TRUE, !.width = w, !.height = h,
                                     !.data = Blank(w, h), !.strokes = 0]
    /\ mask' = NoMask
    /\ edit' = EditAfterCanvasChange
    /\ UNCHANGED <<activeModule, local, library, clock, ops, tally, lastCall, gpa, svc, batch>>

\* the Brush / Eraser buttons: setIsErasing(b).  The effect that attaches the
\* pointer listeners has the dependencies [brushSize, isErasing]: it runs
\* again when isErasing changes, and attaches them if the canvas exists
SetErasing ==
    /\ canvas' = [canvas EXCEPT !.isErasing = ~canvas.isErasing,
                                !.listening = canvas.present]
    /\ mask' = NoMask
    /\ edit' = EditAfterCanvasChange
    /\ UNCHANGED <<activeModule, local, library, clock, ops, tally, lastCall, gpa, svc, batch>>

\* draw: a pointer move while drawing strokes the overlay at a pixel
Draw ==
    /\ canvas.present /\ canvas.listening
    /\ canvas.strokes < MaxStrokes
    /\ \E p \in 1..Len(canvas.data), coverage \in Coverages :
         canvas' = [canvas EXCEPT
                      !.data[p] = StrokePixel(canvas.data[p], canvas.isErasing, coverage),
                      !.strokes = canvas.strokes + 1]
    /\ mask' = NoMask
    /\ edit' = EditAfterCanvasChange
    /\ UNCHANGED <<activeModule, local, library, clock, ops, tally, lastCall, gpa, svc, batch>>

\* clearCanvas: ctx.clearRect(0, 0, canvas.width, canvas.height)
ClearCanvas ==
    /\ canvas.present
    /\ canvas' = [canvas EXCEPT !.data = Blank(canvas.width, canvas.height), !.strokes = 0]
    /\ mask' = NoMask
    /\ edit' = EditAfterCanvasChange
    /\ UNCHANGED <<activeModule, local, library, clock, ops, tally, lastCall, gpa, svc, batch>>

\* a call of getMaskFile on the overlay as it is
GetMaskFile ==
    /\ mask' = [called |-> TRUE, overlay |-> canvas.data, file |-> getMaskFile(canvas)]
    /\ UNCHANGED <<activeModule, local, library, clock, ops, tally, lastCall, gpa, canvas,
                   svc, edit, batch>>

\* handleEditImage up to the await of getMaskFile: getMaskFile reads the
\* overlay and draws the stencil before it returns its promise, the PNG file
\* (new File([blob], 'mask.png', { type: 'image/png' })) arrives later.
\* edit.blank is a history field: no pixel of the overlay was painted at
\* that moment
HandleEditImage ==
    /\ edit.pc # "encoding"
    /\ \E editPrompt \in EditPrompts :
         IF ~canvas.present \/ editPrompt = <<>>
         THEN edit' = [IdleEdit EXCEPT !.error = TRUE]
         ELSE LET stencil == getMaskFile(canvas)
              IN  edit' = [IdleEdit EXCEPT
                             !.pc = "encoding",
                             !.blank = \A p \in 1..Len(canvas.data) : canvas.data[p].a = 0,
                             !.editPrompt = editPrompt,
                             !.maskFile = IF stencil = <<>> THEN <<>>
                                          ELSE <<[type |-> "image/png", data |-> stencil[1]]>>]
    /\ UNCHANGED <<activeModule, local, library, clock, ops, tally, lastCall, gpa,
                   canvas, mask, svc, batch>>

\* handleEditImage after the await: editImageWithPrompt(originalImage,
\* maskFile, editPrompt) sends its request
EditRequestSent ==
    /\ edit.pc = "encoding"
    /\ edit' = [edit EXCEPT !.pc = "sent",
                            !.parts = editImageWithPrompt(ImageFile, edit.maskFile,
                                                          edit.editPrompt)]
    /\ UNCHANGED <<activeModule, local, library, clock, ops, tally, lastCall, gpa,
                   canvas, mask, svc, batch>>

NextMask ==
    \/ ImageLoaded \/ SetErasing \/ Draw \/ ClearCanvas \/ GetMaskFile
    \/ HandleEditImage \/ EditRequestSent

SpecMask == Init /\ [][NextMask]_vars

-----------------------------------------------------------------------------
(* Claims about the mask rasterizer. *)

\* C10: in the stencil getMaskFile returns, a pixel is pure opaque white
\* exactly when the overlay pixel at that place was painted, and every other
\* pixel is pure opaque black: an unpainted pixel is never white.
C10_StencilWhiteIffPainted ==
    mask.file # <<>> =>
        \A p \in 1..Len(mask.overlay) :
            /\ mask.file[1].data[p] = White <=> mask.overlay[p].a > 0
            /\ mask.file[1].data[p] \in {White, Black}

\* C11: getMaskFile returns null whenever no pixel of the overlay is painted
\* (nothing drawn, everything cleared or erased), and a file it returns is
\* never all black.
C11_BlankOverlayGivesNoMask ==
    mask.called =>
        /\ (\A p \in 1..Len(mask.overlay) : mask.overlay[p].a = 0) => mask.file = <<>>
        /\ mask.file # <<>> =>
              \E p \in 1..Len(mask.file[1].data) : mask.file[1].data[p] # Black

\* C11 witness: getMaskFile was called on an overlay that was painted and then
\* erased completely, and returned null.
C11_Witness ==
    /\ mask.called
    /\ canvas.present
    /\ canvas.strokes >= 2
    /\ \A p \in 1..Len(mask.overlay) : mask.overlay[p].a = 0
    /\ mask.file = <<>>

\* C12: a stencil getMaskFile returns has the width and the height of the
\* overlay canvas, holds at least one white pixel, and each of its pixels
\* is (0,0,0,255) or (255,255,255,255).
C12_StencilSizedAndTwoValued ==
    mask.file # <<>> =>
        /\ mask.file[1].width = canvas.width
        /\ mask.file[1].height = canvas.height
        /\ Len(mask.file[1].data) = canvas.width * canvas.height
        /\ \E p \in 1..Len(mask.file[1].data) : mask.file[1].data[p] = White
        /\ \A p \in 1..Len(mask.file[1].data) : mask.file[1].data[p] \in {Black, White}

\* C12 witness: a stencil of several pixels was returned for an overlay that
\* holds a pixel painted at the brush's anti-aliased edge.
C12_Witness ==
    /\ mask.file # <<>>
    /\ Len(mask.file[1].data) >= 2
    /\ \E p \in 1..Len(mask.overlay) : mask.overlay[p].a \in 1..(InkAlpha - 1)

-----------------------------------------------------------------------------
(* One content request: SpecContent. *)

\* editGameAsset(image, mask, instruction) up to the await of generateContent
CallEditGameAsset ==
    /\ svc.pc = "idle"
    /\ \E maskFile \in {<<>>, <<MaskFile>>}, instruction \in Texts :
         svc' = [IdleSvc EXCEPT !.pc = "awaiting", !.fn = "editGameAsset",
                                !.mask = maskFile, !.instruction = instruction,
                                !.parts = EditParts(ImageFile, maskFile, instruction)]
    /\ UNCHANGED <<activeModule, local, library, clock, ops, tally, lastCall, gpa,
                   canvas, mask, edit, batch>>

\* generateVfxAsset(params, 'draft') up to the await of generateContent
CallGenerateVfxAssetDraft ==
    /\ svc.pc = "idle"
    /\ \E params \in VfxParams :
         svc' = [IdleSvc EXCEPT !.pc = "awaiting", !.fn = "generateVfxAsset",
                                !.parts = VfxDraftParts(params)]
    /\ UNCHANGED <<activeModule, local, library, clock, ops, tally, lastCall, gpa,
                   canvas, mask, edit, batch>>

\* paintUVTexture(uvImage, objectType, style, colors) up to the await
CallPaintUVTexture ==
    /\ svc.pc = "idle"
    /\ \E objectType \in TextsOfLen(1), style \in TextsOfLen(1), colors \in TextsOfLen(1) :
         svc' = [IdleSvc EXCEPT !.pc = "awaiting", !.fn = "paintUVTexture",
                                !.parts = PaintUVParts(ImageFile, objectType, style, colors)]
    /\ UNCHANGED <<activeModule, local, library, clock, ops, tally, lastCall, gpa,
                   canvas, mask, edit, batch>>

\* extractVisualStyle, reverseEngineerPrompt and extractTextureFromImage up to
\* the await of their generateContent request
CallTextFunction ==
    /\ svc.pc = "idle"
    /\ \E fn \in TextFunctions :
         svc' = [IdleSvc EXCEPT !.pc = "awaiting", !.fn = fn,
                                !.parts = <<InlinePart(ImageFile), TextPart(<<"Analyze", fn>>)>>]
    /\ UNCHANGED <<activeModule, local, library, clock, ops, tally, lastCall, gpa,
                   canvas, mask, edit, batch>>

\* Inspector.handleAnalyze with an image loaded, up to the await inside
\* analyzeForEngine
CallAnalyzeForEngine ==
    /\ svc.pc = "idle"
    /\ activeModule = ModuleOf("Inspector.handleAnalyze")
    /\ LET st == [local EXCEPT !.image = TRUE]
       IN  local' = Exec(Context(st, TRUE, "none", FALSE, clock),
                         Inspector_handleAnalyze("click", st)).st
    /\ svc' = [IdleSvc EXCEPT !.pc = "awaiting", !.fn = "analyzeForEngine",
                              !.parts = <<InlinePart(ImageFile),
                                          TextPart(<<"Act as a Senior Technical Artist",
                                                     "Output Format: JSON with keys:">>)>>]
    /\ UNCHANGED <<activeModule, library, clock, ops, tally, lastCall, gpa,
                   canvas, mask, edit, batch>>

\* the response of an image function arrives
ImageContentResolves ==
    /\ svc.pc = "awaiting" /\ svc.fn \in ImageFunctions
    /\ \E parts \in ResponseParts :
         LET r == FirstInlineImage(svc.fn, parts)
         IN  svc' = [svc EXCEPT !.pc = IF r.ok THEN "returned" ELSE "thrown",
                                !.response = <<parts>>, !.result = <<r>>]
    /\ UNCHANGED <<activeModule, local, library, clock, ops, tally, lastCall, gpa,
                   canvas, mask, edit, batch>>

\* the response of extractVisualStyle or reverseEngineerPrompt arrives
TextContentResolves ==
    /\ svc.pc = "awaiting" /\ svc.fn \in {"extractVisualStyle", "reverseEngineerPrompt"}
    /\ \E text \in ResponseTexts :
         svc' = [svc EXCEPT !.pc = "returned", !.response = <<text>>,
                            !.result = <<Returned(TextOrDefault(svc.fn, text))>>]
    /\ UNCHANGED <<activeModule, local, library, clock, ops, tally, lastCall, gpa,
                   canvas, mask, edit, batch>>

\* the analysis response of extractTextureFromImage arrives; the function
\* goes on to generateProfessionalAsset(materialDescription, 'texture', ...)
AnalysisResolves ==
    /\ svc.pc = "awaiting" /\ svc.fn = "extractTextureFromImage"
    /\ \E text \in ResponseTexts :
         svc' = [svc EXCEPT !.pc = "resynthesizing", !.response = <<text>>,
                            !.instruction = TextOrDefault(svc.fn, text)]
    /\ UNCHANGED <<activeModule, local, library, clock, ops, tally, lastCall, gpa,
                   canvas, mask, edit, batch>>

\* generateProfessionalAsset returns to extractTextureFromImage, or throws
TextureResynthesized ==
    /\ svc.pc = "resynthesizing"
    /\ \E bytes \in ImageBytes :
         LET url == ProfessionalAssetResult(bytes)
         IN  svc' = [svc EXCEPT
                       !.pc = IF url = <<>> THEN "thrown" ELSE "returned",
                       !.result = IF url = <<>> THEN <<Thrown(FailureMessage("generateProfessionalAsset"))>>
                                  ELSE <<Returned([textureUrl |-> url,
                                                   materialAnalysis |-> svc.instruction])>>]
    /\ UNCHANGED <<activeModule, local, library, clock, ops, tally, lastCall, gpa,
                   canvas, mask, edit, batch>>

\* the response of analyzeForEngine arrives and Inspector.handleAnalyze goes on
ReportResolves ==
    /\ svc.pc = "awaiting" /\ svc.fn = "analyzeForEngine"
    /\ \E text \in JsonTexts :
         LET r == analyzeForEngine(text)
         IN  /\ svc' = [svc EXCEPT !.pc = IF r.ok THEN "returned" ELSE "thrown",
                                    !.response = <<text>>, !.result = <<r>>]
             /\ local' = Exec(Context(local, TRUE, "none", r.ok /\ Truthy(r.value), clock),
                               Inspector_handleAnalyze(IF r.ok THEN "resolved" ELSE "rejected",
                                                       local)).st
    /\ UNCHANGED <<activeModule, library, clock, ops, tally, lastCall, gpa,
                   canvas, mask, edit, batch>>

\* the pending request rejects: the service function rejects with that error
ContentRejects ==
    /\ svc.pc \in {"awaiting", "resynthesizing"}
    /\ svc' = [svc EXCEPT !.pc = "thrown", !.result = <<Thrown("request rejected")>>]
    /\ local' = IF svc.fn = "analyzeForEngine"
                 THEN Exec(Context(local, TRUE, "none", FALSE, clock),
                           Inspector_handleAnalyze("rejected", local)).st
                 ELSE local
    /\ UNCHANGED <<activeModule, library, clock, ops, tally, lastCall, gpa,
                   canvas, mask, edit, batch>>

NextContent ==
    \/ CallEditGameAsset \/ CallGenerateVfxAssetDraft \/ CallPaintUVTexture
    \/ CallTextFunction \/ CallAnalyzeForEngine
    \/ ImageContentResolves \/ TextContentResolves \/ AnalysisResolves
    \/ TextureResynthesized \/ ReportResolves \/ ContentRejects

SpecContent == Init /\ [][NextContent]_vars

-----------------------------------------------------------------------------
(* The multi-concept generations of the canvas editor: SpecBatch. *)

\* a click on the generate button of a kind, its prompt being empty or not
ClickGenerateConcepts(kind) ==
    /\ \E prompt \in BOOLEAN :
         batch' = BatchExec(batch, kind, BatchHandler(kind, "click", prompt))
    /\ UNCHANGED <<activeModule, local, library, clock, ops, tally, lastCall, gpa,
                   canvas, mask, svc, edit>>

\* the buttons are disabled while their kind is loading
ClickGenerateLogos == ~batch.loading["logo"] /\ ClickGenerateConcepts("logo")

ClickGenerateBanners == ~batch.loading["banner"] /\ ClickGenerateConcepts("banner")

\* request i of the batch of a kind settles; the handler goes on in the step
\* in which the join settles, and requests that settle later change nothing
RequestSettles(kind, i, how) ==
    /\ i \in 1..Len(batch.requests[kind])
    /\ batch.requests[kind][i] = "pending"
    /\ LET b == [batch EXCEPT !.requests[kind][i] = how]
           joined == JoinAll(b.requests[kind])
       IN  batch' = IF batch.outcome[kind] = "pending" /\ joined # "pending"
                    THEN BatchExec([b EXCEPT !.outcome[kind] = joined], kind,
                                   BatchHandler(kind, joined, TRUE))
                    ELSE b
    /\ UNCHANGED <<activeModule, local, library, clock, ops, tally, lastCall, gpa,
                   canvas, mask, svc, edit>>

RequestResolves ==
    \E kind \in BatchKinds, i \in 1..LogoConcepts : RequestSettles(kind, i, "resolved")

RequestRejects ==
    \E kind \in BatchKinds, i \in 1..LogoConcepts : RequestSettles(kind, i, "rejected")

NextBatch == ClickGenerateLogos \/ ClickGenerateBanners \/ RequestResolves \/ RequestRejects

SpecBatch == Init /\ [][NextBatch]_vars

\* C16: when one of the N requests of a multi-concept generation fails, the
\* operation reports an error and surfaces no image of the batch: in the
\* step in which the batch fails the error is set, and as long as the batch
\* counts as failed the displayed concept list of its kind is empty and the
\* registry is as it was.
C16_BatchAllOrNothing ==
    [][\A kind \in BatchKinds :
          batch'.outcome[kind] = "rejected" =>
              /\ batch'.generated[kind] = <<>>
              /\ library' = library
              /\ batch.outcome[kind] # "rejected" => batch'.error]_vars

\* C16 witness: a logo batch failed with three of its four requests
\* resolved, while the banners of an earlier batch are displayed.
C16_Witness ==
    /\ batch.outcome["logo"] = "rejected"
    /\ Cardinality({i \in 1..Len(batch.requests["logo"]) :
                       batch.requests["logo"][i] = "resolved"}) = LogoConcepts - 1
    /\ batch.generated["banner"] # <<>>

-----------------------------------------------------------------------------
(* Claims about the content requests. *)

\* C13: the text editGameAsset sends has the masked-region phrasing exactly
\* when a mask is supplied and the apply-globally phrasing exactly when the
\* mask is null, and in both cases quotes the user's instruction verbatim.
C13_EditPhrasingFollowsMask ==
    svc.fn = "editGameAsset" =>
        LET text == svc.parts[Len(svc.parts)].text
        IN  /\ Contains(text, MaskedPhrase) <=> svc.mask # <<>>
            /\ Contains(text, GlobalPhrase) <=> svc.mask = <<>>
            /\ Contains(text, <<"\"">> \o svc.instruction \o <<"\".">>)

\* C13 witness: an edit with a mask and a non-empty instruction was sent.
C13_Witness ==
    /\ svc.fn = "editGameAsset"
    /\ svc.mask # <<>>
    /\ svc.instruction # <<>>

\* C14: the parts editGameAsset sends are [base image, mask, text]: the image
\* part first, the mask part second exactly when a mask is supplied, and one
\* text part, the last.
C14_EditPartsOrdered ==
    svc.fn = "editGameAsset" =>
        LET n == Len(svc.parts)
        IN  /\ n = (IF svc.mask # <<>> THEN 3 ELSE 2)
            /\ svc.parts[1] = InlinePart(ImageFile)
            /\ svc.mask # <<>> => svc.parts[2] = InlinePart(MaskFile)
            /\ svc.parts[n].kind = "text"
            /\ \A i \in 1..(n - 1) : svc.parts[i].kind = "inlineData"

\* C14 witness: an edit with a mask was sent as three parts.
C14_Witness ==
    /\ svc.fn = "editGameAsset"
    /\ svc.mask # <<>>
    /\ Len(svc.parts) = 3

\* C17: an image function (editGameAsset, draft generateVfxAsset,
\* paintUVTexture) whose response holds an inline image in any part of the
\* first candidate returns the data URL of the first such part, and fails
\* only when no part carries an inline image.
C17_FirstInlineImageOfAnyPart ==
    (svc.fn \in ImageFunctions /\ svc.response # <<>>) =>
        LET parts == svc.response[1]
            hits  == {i \in 1..Len(parts) : parts[i].kind = "inlineData"}
        IN  IF hits = {} THEN ~svc.result[1].ok
            ELSE LET i == CHOOSE i \in hits : \A j \in hits : i <= j
                 IN  /\ svc.result[1].ok
                     /\ svc.result[1].value =
                            <<"data:", parts[i].mimeType, ";base64,", parts[i].data>>

\* C19: analyzeForEngine resolves only for a text that is a JSON object with
\* the four keys critique, technicalIssues, engineSuggestions, remasterPrompt;
\* for an empty text, a text that is not JSON or an object that lacks a key
\* it rejects and the Inspector's report stays unset.
C19_ReportValidated ==
    (svc.fn = "analyzeForEngine" /\ svc.response # <<>>) =>
        LET text == svc.response[1]
            valid == text.kind = "object" /\ text.keys = ReportKeys
        IN  /\ svc.result[1].ok => valid
            /\ ~valid => ~svc.result[1].ok /\ ~local.report

\* C20: a text function (extractVisualStyle, reverseEngineerPrompt, the
\* analysis step of extractTextureFromImage) whose response carries no usable
\* text ends in an error: it neither returns nor goes on with a placeholder.
C20_NoPlaceholderText ==
    (svc.fn \in TextFunctions /\ svc.response # <<>> /\ Falsy(svc.response[1]))
        => svc.pc = "thrown"

\* C15: an edit submission carries the mask of the overlay as it was at the
\* moment of submission, after every paint, erase and clear before it: a
\* blank overlay gives a request without mask part and with the
\* apply-globally phrasing, any other overlay a request with a mask part.
C15_EditUsesMaskAtSubmission ==
    edit.pc = "sent" =>
        LET n == Len(edit.parts)
        IN  IF edit.blank
            THEN /\ n = 2
                 /\ edit.parts[1] = InlinePart(ImageFile)
                 /\ Contains(edit.parts[n].text, GlobalPhrase)
                 /\ ~Contains(edit.parts[n].text, MaskedPhrase)
            ELSE /\ n = 3
                 /\ edit.parts[2].kind = "inlineData"
                 /\ edit.parts[2].mimeType = "image/png"

\* C15 witness: a request was sent without mask part for an overlay that had
\* been painted and was cleared or erased before the submission, and that
\* was painted again before the request went out.
C15_Witness ==
    /\ edit.pc = "sent"
    /\ Len(edit.parts) = 2
    /\ edit.blank
    /\ \E p \in 1..Len(canvas.data) : canvas.data[p].a > 0

-----------------------------------------------------------------------------
(* Claims about the handlers of the module components. *)

C24_OneRunInFlightPerModule ==
    BagCardinality([o \in {r \in DOMAIN ops : r.mounted} |-> ops[o]]) <= 1

\* C25: the loading flag of the mounted component is true whenever a run that
\* this component started is in flight.
C25_LoadingWhileInFlight ==
    (\E o \in DOMAIN ops : o.mounted) => local.loading

C27_ReportBelongsToImage ==
    (activeModule = "inspector" /\ local.report) => local.image

\* C28: while InterfaceStudio stays mounted, its generatedItems list holds
\* every asset the component appended to the registry, newest first: the list
\* and the registry filled by this component alone are the same sequence.
C28_GeneratedItemsKeepEveryAsset ==
    activeModule = "interface" => local.items = library

\* C29: registry appends are never lost.  Every successful generation puts
\* its asset into the registry, whatever else is in flight and wherever it was
\* started, and an asset of the registry leaves it only by a delete of its
\* own id: any other step, a completion in any order or a delete of another
\* id, keeps it.
C29_AppendsNeverLost ==
    [][/\ tally'.saves > tally.saves
           => \E j \in 1..Len(library') : library'[j].n = tally'.saves
       /\ \A i \in 1..Len(library) :
             \/ \E j \in 1..Len(library') : library'[j] = library[i]
             \/ library' = deleteFromLibrary(library, library[i].id)]_vars

\* C29 witness: a logo and a banner generation were in flight together
\* (both ended at the same reading of the clock) and both assets are in the
\* registry.
C29_Witness ==
    /\ Len(library) = 2
    /\ {library[1].type, library[2].type} = {"logo", "banner"}
    /\ library[1].createdAt = library[2].createdAt
    /\ tally.resolved = 2
    /\ ops = EmptyBag

=============================================================================
